---- MODULE Spec2Model ----
(***************************************************************************)
(* A model of the DinDins game (src/dindins): the frame loop and screens   *)
(* of main.py: DinDins.run, MainMenu, OptionsMenu, and the game screen:    *)
(* GameScreen.handle / update, Screen.render, the objects of               *)
(* objects.py, the dialogue box and stamina bar of gui.py and the two      *)
(* characters.  Coordinates are integers (pygame.Rect); the house is a     *)
(* small room with the same kinds of objects as GameScreen.__init__ puts   *)
(* into the registry.                                                      *)
(***************************************************************************)
EXTENDS Integers, Sequences, FiniteSets, TLC

VARIABLES
    pc,          \* position in DinDins.run: "pump", "handle", "update", "render",
                 \* "crashed" (an exception ended the program), "exited" (_cleanup)
    running,     \* DinDins.running
    screen,      \* the class of the screen DinDins.run holds: "menu", "game", "options"
    menu,        \* the flags of the MainMenu: rungame, options
    inbox,       \* the list pygame.event.get() returned, not yet handled in this frame
    queue,       \* pygame's event queue: events posted and not yet fetched
    objs,        \* GameScreen.gameobjects, in insertion order
    lucy,        \* GameScreen.player.sprite
    speed,       \* GameScreen.speed
    hiding,      \* GameScreen.hiding
    paused,      \* GameScreen.paused
    temp,        \* GameScreen.temp: <<>> for None, else the saved offset <<x, y>>
    objectives,  \* GameScreen.objectives
    stamina,     \* GameScreen.stamina.stamina
    blocked,     \* GameScreen.stamina.blocked
    dialogue,    \* Screen.dialogue
    nposted,     \* history: how many events have been posted during the running frame
    nhandled,    \* history: how many fetched posted events have been handled in this frame
    log,         \* history: the types of the events handled so far in the running frame
                 \* (a space key-down as "SPACE")
    upd,         \* history: what the last GameScreen.update did (cleared by render)
    streak,      \* history: consecutive ticks with the sprint key held, counted from full stamina
    preHide,     \* history: the registry as it was just before the pending Hide was handled
    spawned,     \* history: how many Juice objects have been added to the registry
    triggered,   \* history: the names of the objects whose trigger() has been called
    got          \* history: the last call of ObjectsGroup.get, <<name, result>>

gameVars == <<objs, lucy, speed, hiding, paused, temp, objectives, stamina, blocked, dialogue>>
loopVars == <<pc, inbox, queue>>
appVars == <<running, screen, menu>>
histVars == <<nposted, nhandled, log, upd, streak, preHide, spawned, triggered, got>>
vars == <<loopVars, appVars, gameVars, histVars>>

----------------------------------------------------------------------------
(* Program constants *)

FPS == 30
WalkSpeed == 3
StaminaMax == 100
PatrolLength == 800
WalkFrames == 2
WalkRate == 2
SprintRate == 6
TileSize == 32

(* Bounds of the model *)

MaxKeyDowns == 2      \* key-down events delivered by one pygame.event.get()
MsgLen == 1           \* characters of a dialogue box's text
MaxJuiceTicks == 3    \* renders the model follows Juice for
MaxBoxes == 2         \* dialogue boxes on screen beyond which no further key is pressed
MaxBoxesDeep == 4     \* the same, where the model follows the dialogue list further
MaxTicker == 16       \* renders the model follows one of Lucy's walk animations for
MaxSprint == 3        \* ticks of stamina a short sprint uses up
MaxPatrolTicks == 1610  \* renders the model follows Juice's patrol for, where it follows it round

----------------------------------------------------------------------------
(* pygame.Rect *)

Rect(x, y, w, h) == [x |-> x, y |-> y, w |-> w, h |-> h]

\* None as a bounding box; like None, a Rect of no size is false in `if boundingbox:`
NoBox == Rect(0, 0, 0, 0)

Truthy(r) == r.w # 0 /\ r.h # 0

move_ip(r, dx, dy) == [r EXCEPT !.x = @ + dx, !.y = @ + dy]

center(r) == <<r.x + (r.w \div 2), r.y + (r.h \div 2)>>

colliderect(a, b) ==
    /\ Truthy(a) /\ Truthy(b)
    /\ a.x < b.x + b.w
    /\ a.y < b.y + b.h
    /\ a.x + a.w > b.x
    /\ a.y + a.h > b.y

\* Rect.inflate(dx, dy) for dx, dy >= 0
inflate(r, dx, dy) == Rect(r.x - (dx \div 2), r.y - (dy \div 2), r.w + dx, r.h + dy)

\* pygame.sprite.collide_rect_ratio(1.25): both rects scaled about their centres;
\* int(w * 1.25 - w) = w \div 4
collide_rect_ratio(a, b) ==
    colliderect(inflate(a, a.w \div 4, a.h \div 4), inflate(b, b.w \div 4, b.h \div 4))

----------------------------------------------------------------------------
(* objects.py: BaseObject and the registry *)

BaseObject(name, kind, rect, box, interactable, triggerable) ==
    [name |-> name, kind |-> kind, rect |-> rect, boundingbox |-> box,
     interactable |-> interactable, triggerable |-> triggerable]

\* variant of move: the bounding box stays where it is
move_RectOnly(o, x, y) == [o EXCEPT !.rect = move_ip(@, x, y)]

move(o, x, y) ==
    [o EXCEPT !.rect = move_ip(@, x, y),
              !.boundingbox = IF Truthy(@) THEN move_ip(@, x, y) ELSE @]

\* `for object in self.gameobjects.sprites(): object.move(x, y)`
moveAll(os, x, y) == [i \in DOMAIN os |-> move(os[i], x, y)]

\* variant of colliders: the view as it was built at construction, without objects
\* added since
colliders_Cached(os) == SelectSeq(os, LAMBDA o : Truthy(o.boundingbox) /\ o.kind # "juice")

colliders(os) == SelectSeq(os, LAMBDA o : Truthy(o.boundingbox))

interactables(os) == SelectSeq(os, LAMBDA o : o.interactable)

triggerables(os) == SelectSeq(os, LAMBDA o : o.triggerable)

_collide(os, player) ==
    \E i \in DOMAIN colliders(os) : colliderect(player.rect, colliders(os)[i].boundingbox)

----------------------------------------------------------------------------
(* objects.py: Animated, and the two characters *)

Animated(name, rect, box, triggerable, image) ==
    [name |-> name, kind |-> name, rect |-> rect, boundingbox |-> box,
     interactable |-> FALSE, triggerable |-> triggerable,
     direction |-> "down", index |-> 0, ticker |-> 0, rate |-> WalkRate,
     pause |-> FALSE, image |-> image]

\* variant of _playanimation: the index is not reset at the end of the animation
_playanimation_NoReset(s, dir) ==
    IF s.ticker % (FPS \div s.rate) = 0
    THEN [s EXCEPT !.index = @ + 1, !.image = <<"walk", dir, s.index>>, !.ticker = @ + 1]
    ELSE [s EXCEPT !.ticker = @ + 1]

\* ticker % (FPS / rate) == 0: FPS / rate is 15.0 or 5.0
_playanimation(s, dir) ==
    IF s.ticker % (FPS \div s.rate) = 0
    THEN LET idx == IF s.index = WalkFrames THEN 0 ELSE s.index
         IN  [s EXCEPT !.index = idx + 1, !.image = <<"walk", dir, idx>>, !.ticker = @ + 1]
    ELSE [s EXCEPT !.ticker = @ + 1]

LucyRect == Rect(0, 0, 8, 8)

Lucy == Animated("lucy", LucyRect, LucyRect, FALSE, <<"idle", "down">>)

LucyTurn(s, pressed, dir) ==
    IF pressed
    THEN _playanimation([s EXCEPT !.ticker = IF s.direction # dir THEN 0 ELSE @,
                                  !.direction = dir], dir)
    ELSE s

\* variant of LucyUpdate: the rect is taken anew from the image and loses its centre
LucyUpdate_GetRect(s, keys) ==
    IF s.pause THEN s
    ELSE [s EXCEPT !.image = <<"idle", s.direction>>, !.ticker = 0,
                   !.rect = Rect(s.rect.x - (s.rect.w \div 2), s.rect.y - (s.rect.h \div 2),
                                 s.rect.w, s.rect.h)]

\* variant of LucyUpdate: the sprite goes on although it is paused
LucyUpdate_IgnorePause(s, keys) == [s EXCEPT !.image = <<"idle", s.direction>>, !.ticker = 0]

LucyUpdate(s, keys) ==
    IF s.pause THEN s
    ELSE LET vert == "UP" \in keys \/ "DOWN" \in keys
             s1 == LucyTurn(s, "LEFT" \in keys /\ ~vert, "left")
             s2 == LucyTurn(s1, "RIGHT" \in keys /\ ~vert, "right")
             s3 == LucyTurn(s2, "UP" \in keys, "up")
             s4 == LucyTurn(s3, "DOWN" \in keys, "down")
         IN  IF keys \cap {"LEFT", "RIGHT", "UP", "DOWN"} = {}
             THEN [s4 EXCEPT !.image = <<"idle", s4.direction>>, !.ticker = 0]
             ELSE s4

\* Juice((555, -220)): the rect the image gets at that screen position
JuiceRect == Rect(14, -12, 2, 2)

Juice ==
    [Animated("juice", JuiceRect, JuiceRect, TRUE, <<"idle", "down">>)
        EXCEPT !.kind = "juice"] @@ [distance |-> 0, flip |-> FALSE]

\* variant of JuiceUpdate: Juice never turns round
JuiceUpdate_NoTurn(s) ==
    IF s.pause THEN s
    ELSE LET m == _playanimation(move(s, 0, 1), "down")
         IN  [m EXCEPT !.distance = @ + 1]

JuiceUpdate(s) ==
    IF s.pause THEN s
    ELSE IF ~s.flip
    THEN LET m == _playanimation(move(s, 0, 1), "down")
         IN  [m EXCEPT !.distance = @ + 1, !.flip = (s.distance + 1 = PatrolLength)]
    ELSE LET m == _playanimation(move(s, 0, -1), "up")
         IN  [m EXCEPT !.distance = @ - 1, !.flip = ~(s.distance - 1 = 0)]

\* `self.gameobjects.update()`: Sprite.update does nothing, Juice.update patrols
updateAll(os) == [i \in DOMAIN os |-> IF os[i].kind = "juice" THEN JuiceUpdate(os[i]) ELSE os[i]]

----------------------------------------------------------------------------
(* gui.py: DialogueBox; settings.py: the custom events *)

DialogueBox(text) == [text |-> text, buffer |-> MsgLen, finished |-> FALSE]

KeyDownEvent(key) == [type |-> "KEYDOWN", key |-> key]
PauseEvent == [type |-> "PAUSE"]
ResumeEvent == [type |-> "RESUME"]
HideEvent(object, mv) == [type |-> "HIDE", object |-> object, move |-> mv]
RenderEvent(objects) == [type |-> "RENDER", objects |-> objects]
ObjectiveEvent(objective) == [type |-> "OBJECTIVE", objective |-> objective]
QuitEvent == [type |-> "QUIT"]

\* DialogueBoxObject.interact: DialogueBox.__init__ posts PAUSE, then RENDER is posted
DialogueBoxObject_interact(text) == <<PauseEvent, RenderEvent(<<DialogueBox(text)>>)>>

HideObject_interact(o) == <<HideEvent(o.name, FALSE)>>

Bowls_interact(objs0) ==
    IF objs0[1] = "eat_food"
    THEN DialogueBoxObject_interact("what_was_that") \o <<ObjectiveEvent(objs0[1])>>
    ELSE IF objs0[1] = "hide_under_bed"
    THEN DialogueBoxObject_interact("need_to_hide")
    ELSE DialogueBoxObject_interact("no_time")

\* variant of Bed_interact: the bed completes the head objective, whatever it is
Bed_interact_Always(o, objs0) ==
    HideObject_interact(o) \o
    <<PauseEvent, RenderEvent(<<DialogueBox("coast_clear")>>), ObjectiveEvent(objs0[1])>>

Bed_interact(o, objs0) ==
    HideObject_interact(o) \o
    (IF objs0[1] = "hide_under_bed"
     THEN <<PauseEvent, RenderEvent(<<DialogueBox("coast_clear")>>), ObjectiveEvent(objs0[1])>>
     ELSE <<>>)

\* the events object.interact() posts, in order
interact(o, objs0) ==
    CASE o.kind = "bowls" -> Bowls_interact(objs0)
      [] o.kind = "bed" -> Bed_interact(o, objs0)
      [] o.kind = "hide" -> HideObject_interact(o)
      [] o.kind = "dialogue" -> DialogueBoxObject_interact(o.name)
      [] OTHER -> <<>>

----------------------------------------------------------------------------
(* objects.py: tileset *)

RECURSIVE tilesFrom(_, _, _, _, _, _)
\* the `while y <= height * 32` loop of tileset, from the tile at (x, y) on: every
\* tile is a BaseObject of the tile image centred at pos - (x, y), named `name`
tilesFrom(pos, width, height, name, x, y) ==
    IF y <= height * TileSize
    THEN <<BaseObject(name, "base",
                      Rect(pos[1] - x - (TileSize \div 2), pos[2] - y - (TileSize \div 2),
                           TileSize, TileSize),
                      NoBox, FALSE, FALSE)>>
         \o (IF x + TileSize > width * TileSize
             THEN tilesFrom(pos, width, height, name, 0, y + TileSize)
             ELSE tilesFrom(pos, width, height, name, x + TileSize, y))
    ELSE <<>>

tileset(pos, width, height, name) == tilesFrom(pos, width, height, name, 0, 0)

----------------------------------------------------------------------------
(* GameScreen.__init__ *)

InitObjectives == <<"eat_food", "hide_under_bed", "go_to_kitchen", "nothing">>

InitObjects ==
    tileset(<<20, 4>>, 1, 0, "floor") \o
    << BaseObject("wall_east", "base", Rect(12, -6, 2, 17), Rect(12, -6, 2, 17), FALSE, FALSE),
       BaseObject("wall_south", "base", Rect(-6, 9, 20, 2), Rect(-6, 9, 20, 2), FALSE, FALSE),
       BaseObject("wall_west", "base", Rect(-6, -6, 2, 17), Rect(-6, -6, 2, 17), FALSE, FALSE),
       BaseObject("wall_north", "base", Rect(-6, -6, 20, 2), Rect(-6, -6, 20, 2), FALSE, FALSE),
       BaseObject("door", "dialogue", Rect(-3, -7, 4, 4), NoBox, TRUE, FALSE),
       BaseObject("bowls", "bowls", Rect(11, -6, 4, 4), Rect(12, -6, 2, 4), TRUE, FALSE),
       BaseObject("bed", "bed", Rect(-10, 6, 9, 6), Rect(-10, 5, 6, 8), TRUE, FALSE) >>

NoUpdate == [done |-> FALSE, free |-> FALSE, dx |-> 0, dy |-> 0, hitx |-> FALSE, hity |-> FALSE,
             boost |-> FALSE, shift |-> FALSE]

\* MainMenu.__init__: the two flags
MainMenu == [rungame |-> FALSE, options |-> FALSE]

\* the first frame of the game screen: Play was clicked and MainMenu.update has
\* constructed the GameScreen
Init ==
    /\ pc = "pump"
    /\ running = TRUE
    /\ screen = "game"
    /\ menu = [MainMenu EXCEPT !.rungame = TRUE]
    /\ triggered = {}
    /\ got = <<>>
    /\ inbox = <<>>
    /\ queue = <<>>
    /\ objs = InitObjects
    /\ lucy = Lucy
    /\ speed = WalkSpeed
    /\ hiding = FALSE
    /\ paused = FALSE
    /\ temp = <<>>
    /\ objectives = InitObjectives
    /\ stamina = StaminaMax
    /\ blocked = FALSE
    /\ dialogue = <<>>
    /\ nposted = 0
    /\ nhandled = 0
    /\ log = <<>>
    /\ upd = NoUpdate
    /\ streak = 0
    /\ preHide = <<>>
    /\ spawned = 0

----------------------------------------------------------------------------
(* pygame's event queue *)

\* an event with the history of its posting: its age, the number of pygame.event.get()
\* calls since it was posted, and its place among the events posted in the same
\* frame (seq -1 for an event the OS delivers)
Tagged(evs, n) == [i \in 1..Len(evs) |-> [ev |-> evs[i], age |-> 0, seq |-> n + i - 1]]

\* what the OS delivers: the window's close request, or a key-down
OSEvent(k) == IF k = "QUIT" THEN QuitEvent ELSE KeyDownEvent(k)

FromOS(kd) == [i \in 1..Len(kd) |-> [ev |-> OSEvent(kd[i]), age |-> 0, seq |-> -1]]

Older(q) == [i \in 1..Len(q) |-> [q[i] EXCEPT !.age = @ + 1]]

\* pygame.event.post, once per element of evs
Post(evs) ==
    /\ queue' = queue \o Tagged(evs, nposted)
    /\ nposted' = nposted + Len(evs)

\* how the history names a handled event
logged(ev) == IF ev.type = "KEYDOWN" /\ ev.key = "SPACE" THEN "SPACE" ELSE ev.type

\* `for event in pygame.event.get()`: the loop moves on to the next fetched event
NextEvent ==
    /\ inbox' = Tail(inbox)
    /\ pc' = IF Tail(inbox) = <<>> THEN "update" ELSE "handle"
    /\ log' = Append(log, logged(Head(inbox).ev))
    /\ nhandled' = IF Head(inbox).seq # -1 THEN nhandled + 1 ELSE nhandled

\* DinDins._handle has the next fetched event, of the given type
Dispatching(type) == pc = "handle" /\ inbox # <<>> /\ Head(inbox).ev.type = type

\* GameScreen.handle has it: the event is no QUIT and the game screen is active
Handling(type) == Dispatching(type) /\ type # "QUIT" /\ screen = "game"

\* variant of event_get: the newest posted event comes first
event_get_Lifo(q, kd) == [i \in 1..Len(q) |-> Older(q)[Len(q) + 1 - i]] \o FromOS(kd)

\* pygame.event.get(): the queue in the order of posting, the OS events behind it
event_get(q, kd) == Older(q) \o FromOS(kd)

\* DinDins.run: clock.tick, then pygame.event.get() pumps the OS events (kd: the
\* key-downs since the last frame) behind the events posted so far
PumpEvents(kd) ==
    /\ pc = "pump"
    /\ running
    /\ inbox' = event_get(queue, kd)
    /\ queue' = <<>>
    /\ pc' = IF queue \o FromOS(kd) = <<>> THEN "update" ELSE "handle"
    /\ nposted' = 0
    /\ nhandled' = 0
    /\ log' = <<>>
    /\ UNCHANGED <<gameVars, upd, streak, preHide, spawned>>
    /\ UNCHANGED <<appVars, triggered, got>>

----------------------------------------------------------------------------
(* GameScreen.handle *)

RECURSIVE interactAll_NoGate(_, _)
\* variant of interactAll: every interactable interacts, however far away
interactAll_NoGate(os, objs0) ==
    IF os = <<>> THEN <<>>
    ELSE interact(Head(os), objs0) \o interactAll_NoGate(Tail(os), objs0)

RECURSIVE interactAll(_, _)
\* `for object in interactables(): if collide_rect_ratio(1.25)(player, object): object.interact()`
interactAll(os, objs0) ==
    IF os = <<>> THEN <<>>
    ELSE (IF collide_rect_ratio(lucy.rect, Head(os).rect) THEN interact(Head(os), objs0) ELSE <<>>)
         \o interactAll(Tail(os), objs0)

\* variant of KeyDownInteract: the interaction does not look at paused
KeyDownInteract_WhilePaused ==
    /\ Handling("KEYDOWN")
    /\ Head(inbox).ev.key = "SPACE"
    /\ ~hiding
    /\ Post(interactAll(interactables(objs), objectives))
    /\ NextEvent
    /\ UNCHANGED <<gameVars, upd, streak, preHide, spawned>>
    /\ UNCHANGED <<appVars, triggered, got>>

\* space pressed, neither paused nor hiding: regular interaction
KeyDownInteract ==
    /\ Handling("KEYDOWN")
    /\ Head(inbox).ev.key = "SPACE"
    /\ ~paused /\ ~hiding
    /\ Post(interactAll(interactables(objs), objectives))
    /\ NextEvent
    /\ UNCHANGED <<gameVars, upd, streak, preHide, spawned>>
    /\ UNCHANGED <<appVars, triggered, got>>

\* space pressed while hiding and not paused: stop hiding
KeyDownUnhide ==
    /\ Handling("KEYDOWN")
    /\ Head(inbox).ev.key = "SPACE"
    /\ ~(~paused /\ ~hiding)
    /\ hiding /\ ~paused
    /\ lucy' = [lucy EXCEPT !.pause = FALSE]
    /\ hiding' = FALSE
    /\ speed' = WalkSpeed
    /\ IF temp = <<>>
       THEN /\ pc' = "crashed"
            /\ UNCHANGED <<objs, inbox, log, nhandled>>
       ELSE /\ objs' = moveAll(objs, (-1) * temp[1], (-1) * temp[2])
            /\ NextEvent
    /\ preHide' = <<>>
    /\ UNCHANGED <<queue, paused, temp, objectives, stamina, blocked, dialogue,
                   nposted, upd, streak, spawned>>
    /\ UNCHANGED <<appVars, triggered, got>>

\* any other key-down, or space while paused: nothing to do
KeyDownIgnored ==
    /\ Handling("KEYDOWN")
    /\ Head(inbox).ev.key # "SPACE" \/ paused
    /\ NextEvent
    /\ UNCHANGED <<queue, gameVars, nposted, upd, streak, preHide, spawned>>
    /\ UNCHANGED <<appVars, triggered, got>>

HandlePause ==
    /\ Handling("PAUSE")
    /\ paused' = TRUE
    /\ speed' = 0
    /\ lucy' = [lucy EXCEPT !.pause = TRUE]
    /\ NextEvent
    /\ UNCHANGED <<queue, objs, hiding, temp, objectives, stamina, blocked, dialogue,
                   nposted, upd, streak, preHide, spawned>>
    /\ UNCHANGED <<appVars, triggered, got>>

\* variant of HandleResume: the sprite is un-paused whether or not the player hides
HandleResume_ShowAlways ==
    /\ Handling("RESUME")
    /\ paused' = FALSE
    /\ speed' = WalkSpeed
    /\ lucy' = [lucy EXCEPT !.pause = FALSE]
    /\ NextEvent
    /\ UNCHANGED <<queue, objs, hiding, temp, objectives, stamina, blocked, dialogue,
                   nposted, upd, streak, preHide, spawned>>
    /\ UNCHANGED <<appVars, triggered, got>>

HandleResume ==
    /\ Handling("RESUME")
    /\ paused' = FALSE
    /\ speed' = WalkSpeed
    /\ lucy' = IF ~hiding THEN [lucy EXCEPT !.pause = FALSE] ELSE lucy
    /\ NextEvent
    /\ UNCHANGED <<queue, objs, hiding, temp, objectives, stamina, blocked, dialogue,
                   nposted, upd, streak, preHide, spawned>>
    /\ UNCHANGED <<appVars, triggered, got>>

\* event.object: the registry object the event refers to
eventObject(os, name) == os[CHOOSE i \in DOMAIN os : os[i].name = name]

\* variant of hideOffset: the offset between the top left corners
hideOffset_TopLeft(player, object) ==
    <<player.rect.x - object.rect.x, player.rect.y - object.rect.y>>

\* variant of hideOffset: a fixed shift, whatever the positions of player and object
hideOffset_Fixed(player, object) == <<10, -5>>

\* the offset that brings the hiding object's centre to the player's centre
hideOffset(player, object) ==
    <<center(player.rect)[1] - center(object.rect)[1],
      center(player.rect)[2] - center(object.rect)[2]>>

HandleHide ==
    /\ Handling("HIDE")
    /\ lucy' = [lucy EXCEPT !.pause = TRUE, !.image = <<"transparent">>]
    /\ speed' = 0
    /\ hiding' = TRUE
    /\ IF ~Head(inbox).ev.move
       THEN LET off == hideOffset(lucy, eventObject(objs, Head(inbox).ev.object))
            IN  /\ temp' = off
                /\ objs' = moveAll(objs, off[1], off[2])
       ELSE UNCHANGED <<temp, objs>>
    /\ preHide' = IF hiding THEN preHide ELSE objs
    /\ NextEvent
    /\ UNCHANGED <<queue, paused, objectives, stamina, blocked, dialogue,
                   nposted, upd, streak, spawned>>
    /\ UNCHANGED <<appVars, triggered, got>>

RECURSIVE appendBoxes(_, _)
\* `for object in event.objects: if type(object) == DialogueBox: self.dialogue.append(object)`
appendBoxes(d, objects) ==
    IF objects = <<>> THEN d ELSE appendBoxes(Append(d, Head(objects)), Tail(objects))

HandleRender ==
    /\ Handling("RENDER")
    /\ dialogue' = appendBoxes(dialogue, Head(inbox).ev.objects)
    /\ NextEvent
    /\ UNCHANGED <<queue, objs, lucy, speed, hiding, paused, temp, objectives, stamina, blocked,
                   nposted, upd, streak, preHide, spawned>>
    /\ UNCHANGED <<appVars, triggered, got>>

Contains(list, x) == \E i \in DOMAIN list : list[i] = x

\* variant of remove: the last element is dropped, whatever x is
remove_Last(list, x) == [i \in 1..(Len(list) - 1) |-> list[i]]

\* list.remove(x): the list without the first element equal to x
remove(list, x) ==
    LET k == CHOOSE i \in DOMAIN list : list[i] = x /\ \A j \in 1..(i - 1) : list[j] # x
    IN  [i \in 1..(Len(list) - 1) |-> IF i < k THEN list[i] ELSE list[i + 1]]

\* variant of spawnsJuice: go_to_kitchen anywhere in the list
spawnsJuice_Anywhere(list) == Contains(list, "go_to_kitchen")

\* `if self.objectives[0] == 'go_to_kitchen'`
spawnsJuice(list) == list[1] = "go_to_kitchen"

\* objectives.remove raises ValueError for an objective that is not in the list,
\* objectives[0] IndexError on an empty list: the exception ends the program
HandleObjective ==
    /\ Handling("OBJECTIVE")
    /\ IF ~Contains(objectives, Head(inbox).ev.objective)
       THEN /\ pc' = "crashed"
            /\ UNCHANGED <<inbox, log, nhandled, objectives, objs, spawned>>
       ELSE IF remove(objectives, Head(inbox).ev.objective) = <<>>
       THEN /\ pc' = "crashed"
            /\ objectives' = <<>>
            /\ UNCHANGED <<inbox, log, nhandled, objs, spawned>>
       ELSE /\ objectives' = remove(objectives, Head(inbox).ev.objective)
            /\ IF spawnsJuice(objectives')
               THEN objs' = Append(objs, Juice) /\ spawned' = spawned + 1
               ELSE UNCHANGED <<objs, spawned>>
            /\ NextEvent
    /\ UNCHANGED <<queue, lucy, speed, hiding, paused, temp, stamina, blocked, dialogue,
                   nposted, upd, streak, preHide>>
    /\ UNCHANGED <<appVars, triggered, got>>

----------------------------------------------------------------------------
(* GameScreen.update *)

\* variant of speed_x: LEFT and RIGHT the other way round
speed_x_Mirrored(keys, sp) == IF "RIGHT" \in keys THEN sp ELSE IF "LEFT" \in keys THEN sp * (-1) ELSE 0

\* speed_x / speed_y from the key state: RIGHT overrides LEFT, DOWN overrides UP
speed_x(keys, sp) == IF "RIGHT" \in keys THEN sp * (-1) ELSE IF "LEFT" \in keys THEN sp ELSE 0

speed_y(keys, sp) == IF "DOWN" \in keys THEN sp * (-1) ELSE IF "UP" \in keys THEN sp ELSE 0

\* variant of sprinting: the sprint key alone decides
sprinting_IgnoreBlocked(keys, blk) == "LSHIFT" \in keys

\* `if keystate[pygame.K_LSHIFT] and not self.stamina.blocked`
sprinting(keys, blk) == "LSHIFT" \in keys /\ ~blk

\* variant of staminaTick: sprinting is unblocked as soon as stamina regenerates
staminaTick_AnyUnblock(keys, st, blk) ==
    IF sprinting(keys, blk)
    THEN <<st - 1, IF st - 1 = 0 THEN TRUE ELSE blk>>
    ELSE IF st < StaminaMax THEN <<st + 1, FALSE>> ELSE <<st, FALSE>>

\* variant of staminaTick: stamina regenerates without the check against its maximum
staminaTick_NoCap(keys, st, blk) ==
    IF sprinting(keys, blk)
    THEN <<st - 1, IF st - 1 = 0 THEN TRUE ELSE blk>>
    ELSE <<st + 1, IF st < StaminaMax THEN blk ELSE FALSE>>

\* variant of staminaTick: stamina is used only while a direction key is held
staminaTick_OnlyMoving(keys, st, blk) ==
    IF sprinting(keys, blk) /\ keys \cap {"LEFT", "RIGHT", "UP", "DOWN"} # {}
    THEN <<st - 1, IF st - 1 = 0 THEN TRUE ELSE blk>>
    ELSE IF st < StaminaMax THEN <<st + 1, blk>> ELSE <<st, FALSE>>

\* the stamina bar after one tick: <<stamina, blocked>>
staminaTick(keys, st, blk) ==
    IF sprinting(keys, blk)
    THEN <<st - 1, IF st - 1 = 0 THEN TRUE ELSE blk>>
    ELSE IF st < StaminaMax THEN <<st + 1, blk>> ELSE <<st, FALSE>>

\* variant of shiftAxis: the shift is kept although the player collides
shiftAxis_NoRollback(os, player, dx, dy) == moveAll(os, dx, dy)

\* variant of shiftAxis: the compensating move shifts the rects, not the bounding boxes
shiftAxis_RectOnly(os, player, dx, dy) ==
    IF _collide(moveAll(os, dx, dy), player)
    THEN [i \in DOMAIN os |-> [moveAll(os, dx, dy)[i] EXCEPT !.rect = os[i].rect]]
    ELSE moveAll(os, dx, dy)

\* variant of shiftAxis: the collision is tested before the shift, not after it
shiftAxis_CheckBefore(os, player, dx, dy) ==
    IF _collide(os, player) THEN os ELSE moveAll(os, dx, dy)

\* shift all objects on one axis, and shift them back if the player then collides
shiftAxis(os, player, dx, dy) ==
    IF _collide(moveAll(os, dx, dy), player)
    THEN moveAll(moveAll(os, dx, dy), (-1) * dx, (-1) * dy)
    ELSE moveAll(os, dx, dy)

Update(keys) ==
    /\ pc = "update"
    /\ screen = "game"
    /\ LET boost == sprinting(keys, blocked)
           dx == IF boost THEN speed_x(keys, speed) * 2 ELSE speed_x(keys, speed)
           dy == IF boost THEN speed_y(keys, speed) * 2 ELSE speed_y(keys, speed)
           afterx == shiftAxis(objs, lucy, dx, 0)
       IN  /\ lucy' = [lucy EXCEPT !.rate = IF boost THEN SprintRate ELSE WalkRate]
           /\ stamina' = staminaTick(keys, stamina, blocked)[1]
           /\ blocked' = staminaTick(keys, stamina, blocked)[2]
           /\ objs' = shiftAxis(afterx, lucy, 0, dy)
           /\ upd' = [done |-> TRUE, free |-> ~_collide(objs, lucy), dx |-> dx, dy |-> dy,
                      hitx |-> _collide(moveAll(objs, dx, 0), lucy),
                      hity |-> _collide(moveAll(afterx, 0, dy), lucy),
                      boost |-> boost, shift |-> "LSHIFT" \in keys]
           /\ streak' = IF "LSHIFT" \in keys /\ streak < StaminaMax
                           /\ (streak > 0 \/ (stamina = StaminaMax /\ ~blocked))
                        THEN streak + 1 ELSE 0
    /\ pc' = "render"
    /\ UNCHANGED <<inbox, queue, speed, hiding, paused, temp, objectives, dialogue,
                   nposted, nhandled, log, preHide, spawned>>
    /\ UNCHANGED <<appVars, triggered, got>>

----------------------------------------------------------------------------
(* Screen.render *)

RemoveAt(list, k) == [i \in 1..(Len(list) - 1) |-> IF i < k THEN list[i] ELSE list[i + 1]]

\* DialogueBox.render: type one character, or close the box when space is down
renderBox(box, keys) ==
    IF box.buffer > 0 THEN [box EXCEPT !.buffer = @ - 1]
    ELSE IF "SPACE" \in keys THEN [box EXCEPT !.finished = TRUE]
    ELSE box

RECURSIVE renderBoxes(_, _, _)
\* `for box in self.dialogue:` from list index i on (1-based); removing the box at i
\* while the loop runs makes the loop pass over the box that follows it.
\* Yields the list and the number of RESUME events posted.
renderBoxes(d, i, keys) ==
    IF i > Len(d) THEN [dialogue |-> d, resumes |-> 0]
    ELSE IF d[i].finished THEN renderBoxes(RemoveAt(d, i), i + 1, keys)
    ELSE LET rest == renderBoxes([d EXCEPT ![i] = renderBox(d[i], keys)], i + 1, keys)
         IN  [dialogue |-> rest.dialogue,
              resumes |-> rest.resumes + (IF renderBox(d[i], keys).finished THEN 1 ELSE 0)]

Resumes(n) == [i \in 1..n |-> ResumeEvent]

JuiceTicks(os) == {os[i].ticker : i \in {j \in DOMAIN os : os[j].kind = "juice"}}

\* no Juice of the registry has been followed for limit renders yet
JuiceWithin(limit) == \A t \in JuiceTicks(objs) : t < limit

Render(keys) ==
    /\ pc = "render"
    /\ screen = "game"
    /\ lucy.ticker < MaxTicker
    /\ objs' = updateAll(objs)
    /\ lucy' = LucyUpdate(lucy, keys)
    /\ dialogue' = renderBoxes(dialogue, 1, keys).dialogue
    /\ Post(Resumes(renderBoxes(dialogue, 1, keys).resumes))
    /\ upd' = NoUpdate
    /\ pc' = "pump"
    /\ UNCHANGED <<inbox, speed, hiding, paused, temp, objectives, stamina, blocked,
                   nhandled, log, streak, preHide, spawned>>
    /\ UNCHANGED <<appVars, triggered, got>>

----------------------------------------------------------------------------
(* DinDins._handle, DinDins.run; MainMenu, OptionsMenu; gui.py: Button *)

\* `if event.type == pygame.QUIT: self.running = False`
HandleQuit ==
    /\ Dispatching("QUIT")
    /\ running' = FALSE
    /\ NextEvent
    /\ UNCHANGED <<queue, screen, menu, gameVars, nposted, upd, streak, preHide, spawned,
                   triggered, got>>

\* Screen.handle, which MainMenu and OptionsMenu inherit: `pass`
ScreenHandle ==
    /\ pc = "handle" /\ inbox # <<>>
    /\ Head(inbox).ev.type # "QUIT"
    /\ screen # "game"
    /\ NextEvent
    /\ UNCHANGED <<queue, appVars, gameVars, nposted, upd, streak, preHide, spawned,
                   triggered, got>>

\* `while self.running:` ends, `self._cleanup()`
Cleanup ==
    /\ pc = "pump"
    /\ ~running
    /\ pc' = "exited"
    /\ UNCHANGED <<inbox, queue, appVars, gameVars, histVars>>

\* variant of MainMenu_update: the two buttons lead to each other's screen
MainMenu_update_Swapped(m) ==
    IF m.rungame THEN "options" ELSE IF m.options THEN "game" ELSE "menu"

\* MainMenu.update: the class of the screen it returns
MainMenu_update(m) ==
    IF m.rungame THEN "game" ELSE IF m.options THEN "options" ELSE "menu"

\* `screen = screen.update()` with the main menu: GameScreen() and OptionsMenu() are
\* constructed here; the game variables hold the state GameScreen.__init__ builds
MenuUpdate ==
    /\ pc = "update"
    /\ screen = "menu"
    /\ screen' = MainMenu_update(menu)
    /\ pc' = "render"
    /\ UNCHANGED <<inbox, queue, running, menu, gameVars, histVars>>

\* OptionsMenu.update: `return self`
OptionsUpdate ==
    /\ pc = "update"
    /\ screen = "options"
    /\ pc' = "render"
    /\ UNCHANGED <<inbox, queue, appVars, gameVars, histVars>>

WIDTH == 1000
HEIGHT == 800
ButtonSize == 100

\* Button.__init__: a button of the default size centred at pos
Button(text, pos) ==
    [text |-> text,
     rect |-> Rect(pos[1] - (ButtonSize \div 2), pos[2] - (ButtonSize \div 2), ButtonSize, ButtonSize)]

playbtn == Button("Play", <<WIDTH \div 2, HEIGHT \div 2>>)
optionsbtn == Button("Options", <<WIDTH \div 2, (HEIGHT \div 2) + 110>>)

\* Button.render: `x + self.width > mouse[0] > x and y + self.height > mouse[1] > y`,
\* and the action is called `if click[0]`
clicked(b, mouse, click) ==
    /\ b.rect.x + b.rect.w > mouse[1] /\ mouse[1] > b.rect.x
    /\ b.rect.y + b.rect.h > mouse[2] /\ mouse[2] > b.rect.y
    /\ click

\* Screen.render of the main menu: the two buttons are rendered in the order of
\* MainMenu.buttons; there are no game objects, no player and no dialogue
MenuRender(mouse, click) ==
    /\ pc = "render"
    /\ screen = "menu"
    /\ menu' = [rungame |-> menu.rungame \/ clicked(playbtn, mouse, click),
                options |-> menu.options \/ clicked(optionsbtn, mouse, click)]
    /\ pc' = "pump"
    /\ UNCHANGED <<inbox, queue, running, screen, gameVars, histVars>>

\* Screen.render of the options menu: nothing to render
OptionsRender ==
    /\ pc = "render"
    /\ screen = "options"
    /\ pc' = "pump"
    /\ UNCHANGED <<inbox, queue, appVars, gameVars, histVars>>

----------------------------------------------------------------------------
(* objects.py: ObjectsGroup.get *)

RECURSIVE get_Last(_, _)
\* variant of get: the last object of that name
get_Last(os, objectname) ==
    IF os = <<>> THEN <<>>
    ELSE IF get_Last(Tail(os), objectname) # <<>> THEN get_Last(Tail(os), objectname)
    ELSE IF Head(os).name = objectname THEN <<Head(os)>>
    ELSE <<>>

RECURSIVE get(_, _)
\* `for object in self.sprites(): if object.name == objectname: return object`, and
\* `return None` after the loop: <<>> for None, else <<object>>
get(os, objectname) ==
    IF os = <<>> THEN <<>>
    ELSE IF Head(os).name = objectname THEN <<Head(os)>>
    ELSE get(Tail(os), objectname)

\* a call of self.gameobjects.get(objectname) between two frames
Get(objectname) ==
    /\ pc = "pump"
    /\ screen = "game"
    /\ got' = <<objectname, get(objs, objectname)>>
    /\ UNCHANGED <<loopVars, appVars, gameVars, nposted, nhandled, log, upd, streak, preHide,
                   spawned, triggered>>

----------------------------------------------------------------------------
(* The specifications *)

DirKeys == {"LEFT", "RIGHT", "UP", "DOWN"}

\* the keys pressed since the last frame: none, or so few that the dialogue list
\* stays within the limit
Pressed(kd, limit) == kd = <<>> \/ Len(dialogue) + Len(kd) <= limit

KeyDowns == {<<"LEFT">>} \cup UNION {[1..n -> {"SPACE"}] : n \in 0..MaxKeyDowns}

\* the game with its interactions: walking, space key-downs, dialogue
Next ==
    \/ \E kd \in KeyDowns : Pressed(kd, MaxBoxes) /\ PumpEvents(kd)
    \/ KeyDownInteract
    \/ KeyDownUnhide
    \/ KeyDownIgnored
    \/ HandlePause
    \/ HandleResume
    \/ HandleHide
    \/ HandleRender
    \/ HandleObjective
    \/ \E keys \in SUBSET DirKeys : Update(keys)
    \/ \E keys \in SUBSET {"SPACE"} : JuiceWithin(MaxJuiceTicks) /\ Render(keys)

Spec == Init /\ [][Next]_vars

\* walking and sprinting through the room, no key-down events
NextMove ==
    \/ PumpEvents(<<>>)
    \/ \E keys \in SUBSET (DirKeys \cup {"LSHIFT"}) : Update(keys)
    \/ Render({})

SpecMove == Init /\ [][NextMove]_vars

\* walking through the room with every combination of the direction keys, and short
\* sprints: the sprint key is held only while the stamina bar is nearly full
NextWalk ==
    \/ PumpEvents(<<>>)
    \/ \E keys \in SUBSET (DirKeys \cup {"LSHIFT"}) :
            /\ "LSHIFT" \in keys => stamina > StaminaMax - MaxSprint
            /\ Update(keys)
    \/ Render({})

SpecWalk == Init /\ [][NextWalk]_vars

\* the quest up to Juice's spawn, one key-down at a time, and Juice's patrol after it:
\* once Juice is there the player touches no direction key, and after Juice's first
\* steps no key at all
NextPatrol ==
    \/ \E kd \in {<<>>, <<"SPACE">>} :
            /\ kd # <<>> => JuiceWithin(MaxJuiceTicks)
            /\ Pressed(kd, MaxBoxes)
            /\ PumpEvents(kd)
    \/ KeyDownInteract
    \/ KeyDownUnhide
    \/ KeyDownIgnored
    \/ HandlePause
    \/ HandleResume
    \/ HandleHide
    \/ HandleRender
    \/ HandleObjective
    \/ \E keys \in {{}, {"LEFT"}, {"RIGHT"}, {"UP"}, {"DOWN"}} :
            /\ keys # {} => spawned = 0
            /\ Update(keys)
    \/ \E keys \in SUBSET {"SPACE"} :
            /\ keys # {} => JuiceWithin(MaxJuiceTicks)
            /\ JuiceWithin(MaxPatrolTicks)
            /\ Render(keys)

SpecPatrol == Init /\ [][NextPatrol]_vars

\* interactions and sprinting on the way from the start to the door and the bed,
\* one key-down at a time; the bowls are out of reach, so no objective completes
NextSprint ==
    \/ \E kd \in {<<>>, <<"SPACE">>} : Pressed(kd, MaxBoxes) /\ PumpEvents(kd)
    \/ KeyDownInteract
    \/ KeyDownUnhide
    \/ KeyDownIgnored
    \/ HandlePause
    \/ HandleResume
    \/ HandleHide
    \/ HandleRender
    \/ \E keys \in SUBSET {"LEFT", "UP", "LSHIFT"} : Update(keys)
    \/ \E keys \in SUBSET {"SPACE"} : Render(keys)

SpecSprint == Init /\ [][NextSprint]_vars

\* walking with the walk animation and hiding under the bed: the direction keys are
\* read by update and again by the player sprite's update during render; short
\* sprints change the animation rate
NextAnim ==
    \/ \E kd \in {<<>>, <<"SPACE">>} : Pressed(kd, MaxBoxes) /\ PumpEvents(kd)
    \/ KeyDownInteract
    \/ KeyDownUnhide
    \/ HandleHide
    \/ \E keys \in SUBSET {"LEFT", "DOWN", "LSHIFT"} :
            /\ "LSHIFT" \in keys => stamina > StaminaMax - MaxSprint
            /\ Update(keys)
    \/ \E keys \in SUBSET {"LEFT", "DOWN"} : Render(keys)

SpecAnim == Init /\ [][NextAnim]_vars

\* the dialogue boxes of the door: the way up to the door, space pressed once or twice
\* per frame, space held or not during render
NextBoxes ==
    \/ \E kd \in {<<>>, <<"SPACE">>, <<"SPACE", "SPACE">>} :
            Pressed(kd, MaxBoxesDeep) /\ PumpEvents(kd)
    \/ KeyDownInteract
    \/ KeyDownIgnored
    \/ HandlePause
    \/ HandleResume
    \/ HandleRender
    \/ \E keys \in {{}, {"UP"}} : Update(keys)
    \/ \E keys \in SUBSET {"SPACE"} : Render(keys)

SpecBoxes == Init /\ [][NextBoxes]_vars

\* DinDins.run: `screen = MainMenu()`; no GameScreen exists yet, the game variables
\* hold what GameScreen.__init__ will build
InitApp ==
    /\ pc = "pump"
    /\ running = TRUE
    /\ screen = "menu"
    /\ menu = MainMenu
    /\ inbox = <<>> /\ queue = <<>>
    /\ objs = InitObjects /\ lucy = Lucy /\ speed = WalkSpeed
    /\ hiding = FALSE /\ paused = FALSE /\ temp = <<>>
    /\ objectives = InitObjectives
    /\ stamina = StaminaMax /\ blocked = FALSE
    /\ dialogue = <<>>
    /\ nposted = 0 /\ nhandled = 0 /\ log = <<>> /\ upd = NoUpdate /\ streak = 0
    /\ preHide = <<>> /\ spawned = 0 /\ triggered = {} /\ got = <<>>

\* positions of the mouse: on Play, on Options, on the lower edge of Play, in a corner
MousePositions ==
    {<<WIDTH \div 2, HEIGHT \div 2>>, <<WIDTH \div 2, (HEIGHT \div 2) + 110>>,
     <<WIDTH \div 2, (HEIGHT \div 2) + (ButtonSize \div 2)>>, <<0, 0>>}

\* the application from its start: the menus, the way up to the door in the game,
\* and the window closed at any time, alone or together with a space key-down
NextApp ==
    \/ \E kd \in {<<>>, <<"SPACE">>, <<"QUIT">>, <<"QUIT", "SPACE">>} :
            Pressed(kd, MaxBoxes) /\ PumpEvents(kd)
    \/ HandleQuit
    \/ ScreenHandle
    \/ Cleanup
    \/ MenuUpdate
    \/ OptionsUpdate
    \/ \E mouse \in MousePositions, click \in BOOLEAN : MenuRender(mouse, click)
    \/ OptionsRender
    \/ KeyDownInteract
    \/ KeyDownIgnored
    \/ HandlePause
    \/ HandleResume
    \/ HandleRender
    \/ \E keys \in {{}, {"UP"}} : Update(keys)
    \/ \E keys \in SUBSET {"SPACE"} : Render(keys)

SpecApp == InitApp /\ [][NextApp]_vars

\* the registry looked up by name while the player walks
NextGet ==
    \/ PumpEvents(<<>>)
    \/ \E keys \in SUBSET {"LEFT", "UP"} : Update(keys)
    \/ Render({})
    \/ \E objectname \in {"floor", "door", "bed", "juice", "lucy"} : Get(objectname)

SpecGet == Init /\ [][NextGet]_vars

----------------------------------------------------------------------------
(* Properties of GameScreen.update *)

\* C1: axis-independence.  An update that starts with the player overlapping no
\* collider, whose x-shift collides and whose y-shift (after the x rollback) does
\* not, moves every registry object by exactly (0, dy); one whose x-shift does not
\* collide and whose following y-shift does moves every object by exactly (dx, 0).
C1_AxisIndependence ==
    [][(pc = "update" /\ pc' = "render" /\ ~_collide(objs, lucy)) =>
        LET dx == upd'.dx
            dy == upd'.dy
            hitx == _collide(moveAll(objs, dx, 0), lucy)
        IN  /\ (hitx /\ ~_collide(moveAll(objs, 0, dy), lucy)) => objs' = moveAll(objs, 0, dy)
            /\ (~hitx /\ _collide(moveAll(objs, dx, dy), lucy)) => objs' = moveAll(objs, dx, 0)
      ]_vars

\* an update from a collision-free position, moving on both axes, just rolled back x only
C1_Witness ==
    upd.done /\ upd.free /\ upd.hitx /\ ~upd.hity /\ upd.dx # 0 /\ upd.dy # 0

\* C2: rollback symmetry.  After an update whose x-shift collided every object's rect
\* and bounding box have the x they had before; after one whose y-shift collided they
\* have the y they had before; an update in which both axes collide changes no object.
C2_RollbackSymmetry ==
    [][(pc = "update" /\ pc' = "render") =>
        /\ DOMAIN objs' = DOMAIN objs
        /\ upd'.hitx => \A i \in DOMAIN objs :
                /\ objs'[i].rect.x = objs[i].rect.x
                /\ objs'[i].boundingbox.x = objs[i].boundingbox.x
        /\ upd'.hity => \A i \in DOMAIN objs :
                /\ objs'[i].rect.y = objs[i].rect.y
                /\ objs'[i].boundingbox.y = objs[i].boundingbox.y
        /\ (upd'.hitx /\ upd'.hity) => objs' = objs
      ]_vars

\* an update with a displacement on both axes, both rolled back
C2_Witness ==
    upd.done /\ upd.hitx /\ upd.hity /\ upd.dx # 0 /\ upd.dy # 0

----------------------------------------------------------------------------
(* Properties of pausing and hiding *)

\* C3: speed is 0 whenever the game is paused or the player is hiding; in particular
\* a RESUME handled while hiding leaves speed at 0.
C3_SpeedZeroWhilePausedOrHiding == (paused \/ hiding) => speed = 0

\* C4: hide / un-hide round trip.  When a space key-down ends the hiding, every static
\* object that was in the registry before the Hide is back at exactly the position it
\* had immediately before the Hide was handled.
C4_HideRoundTrip ==
    [][(Handling("KEYDOWN") /\ hiding /\ ~hiding' /\ pc' # "crashed") =>
        \A i \in DOMAIN preHide : preHide[i].kind # "juice" => objs'[i] = preHide[i]
      ]_vars

----------------------------------------------------------------------------
(* Properties of the stamina bar *)

\* C5: stamina hysteresis.  Holding the sprint key for k ticks from full stamina
\* leaves 100 - k, and after 100 ticks stamina is 0 and sprinting is blocked; a tick
\* that starts blocked applies no boost (displacement not doubled, animation rate 2);
\* sprinting gets blocked only at stamina 0 and unblocked only at stamina 100.
C5_StaminaHysteresis ==
    /\ [](/\ streak > 0 => stamina = StaminaMax - streak
          /\ streak = StaminaMax => (stamina = 0 /\ blocked))
    /\ [][(pc = "update" /\ pc' = "render") =>
            /\ blocked => /\ ~upd'.boost
                          /\ lucy'.rate = WalkRate
                          /\ upd'.dx \in {0, speed, (-1) * speed}
                          /\ upd'.dy \in {0, speed, (-1) * speed}
            /\ (~blocked /\ blocked') => stamina' = 0
            /\ (blocked /\ ~blocked') => stamina = StaminaMax
            /\ (blocked /\ stamina < StaminaMax) => blocked'
       ]_vars

\* the sprint key is held while sprinting is blocked and stamina is part-way up
C5_Witness ==
    upd.done /\ upd.shift /\ ~upd.boost /\ blocked /\ stamina > 1 /\ stamina < StaminaMax
        /\ upd.dx # 0

\* C6: 0 <= stamina <= 100 in every reachable state, whatever the keys held and
\* whether the game is paused or the player is hiding.
C6_StaminaBounds == stamina >= 0 /\ stamina <= StaminaMax

\* stamina ran out while the player was hiding
C6_Witness == stamina = 0 /\ blocked /\ hiding

----------------------------------------------------------------------------
(* Properties of the event loop *)

\* C7: event ordering.  Every posted event that is being handled was posted during the
\* frame before (one pygame.event.get() ago), never in the running frame, and posted
\* events are handled in the order of their posting; Bed.interact with head objective
\* hide_under_bed posts HIDE, PAUSE, RENDER, OBJECTIVE in this order.
C7_EventOrdering ==
    /\ [](/\ \A i \in DOMAIN inbox : inbox[i].seq # -1 => inbox[i].age = 1
          /\ \A i \in DOMAIN queue : queue[i].age = 0
          /\ \A i, j \in DOMAIN inbox :
                (i < j /\ inbox[i].seq # -1 /\ inbox[j].seq # -1) => inbox[i].seq < inbox[j].seq
          /\ (inbox # <<>> /\ Head(inbox).seq # -1) => Head(inbox).seq = nhandled)
    /\ [][(Handling("KEYDOWN") /\ Head(inbox).ev.key = "SPACE" /\ ~paused /\ ~hiding
            /\ objectives[1] = "hide_under_bed"
            /\ collide_rect_ratio(lucy.rect, eventObject(objs, "bed").rect)) =>
            /\ Len(queue') = Len(queue) + 4
            /\ [i \in 1..4 |-> queue'[Len(queue) + i].ev.type]
                   = <<"HIDE", "PAUSE", "RENDER", "OBJECTIVE">>
       ]_vars

\* the frame after a space key-down at the bed with head objective hide_under_bed
C7_Witness ==
    /\ pc = "update"
    /\ log = <<"HIDE", "PAUSE", "RENDER", "OBJECTIVE">>
    /\ objectives[1] = "go_to_kitchen"

----------------------------------------------------------------------------
(* Properties of the objectives *)

JuiceCount(os) == Cardinality({i \in DOMAIN os : os[i].kind = "juice"})

\* C8: objective ordering.  Handling OBJECTIVE eat_food with the initial objectives
\* leaves <<hide_under_bed, go_to_kitchen, nothing>> and adds no Juice; a step that
\* adds Juice is an OBJECTIVE handling that makes go_to_kitchen the head.
C8_ObjectiveOrdering ==
    [][/\ (Handling("OBJECTIVE") /\ Head(inbox).ev.objective = "eat_food"
            /\ objectives = InitObjectives) =>
            /\ objectives' = <<"hide_under_bed", "go_to_kitchen", "nothing">>
            /\ JuiceCount(objs') = 0
            /\ pc' # "crashed"
       /\ JuiceCount(objs') > JuiceCount(objs) =>
            /\ Handling("OBJECTIVE")
            /\ objectives # objectives'
            /\ objectives'[1] = "go_to_kitchen"
      ]_vars

\* eat_food has just been completed
C8_Witness ==
    /\ objectives = <<"hide_under_bed", "go_to_kitchen", "nothing">>
    /\ log # <<>> /\ log[Len(log)] = "OBJECTIVE"
    /\ JuiceCount(objs) = 0

IsSuffix(s, t) == \E k \in 0..Len(t) : s = SubSeq(t, k + 1, Len(t))

\* C9: every OBJECTIVE event being handled names the head objective, its handling
\* raises no error, and the objectives are always a non-empty suffix of the initial
\* list, also with several space key-downs in one frame.
C9_ObjectiveIsHead ==
    /\ pc # "crashed"
    /\ Handling("OBJECTIVE") => Head(inbox).ev.objective = objectives[1]
    /\ objectives # <<>> /\ IsSuffix(objectives, InitObjectives)

\* C10: Juice is added to the registry exactly by the OBJECTIVE handlings that make
\* go_to_kitchen the new head objective, and at most one Juice is ever added.
C10_JuiceOnce ==
    /\ [](JuiceCount(objs) <= 1 /\ spawned = JuiceCount(objs))
    /\ [][(JuiceCount(objs') > JuiceCount(objs)) <=>
            (/\ Handling("OBJECTIVE")
             /\ pc' # "crashed"
             /\ objectives' # objectives
             /\ objectives'[1] = "go_to_kitchen")
       ]_vars

\* Juice is in the registry
C10_Witness == JuiceCount(objs) = 1 /\ objectives[1] = "go_to_kitchen"

----------------------------------------------------------------------------
(* Properties of the space key *)

\* C11: proximity gate.  A space key-down handled while not paused and not hiding, with
\* no interactable's expanded rect overlapping the player's expanded rect, changes no
\* GameScreen state and posts no event.
C11_ProximityGate ==
    [][(/\ Handling("KEYDOWN") /\ Head(inbox).ev.key = "SPACE"
        /\ ~paused /\ ~hiding
        /\ \A i \in DOMAIN objs :
              objs[i].interactable => ~collide_rect_ratio(lucy.rect, objs[i].rect)) =>
        (UNCHANGED gameVars /\ queue' = queue)
      ]_vars

\* a space key-down has just been handled out of reach of every interactable, by a
\* player that never hid and is not paused
C11_Witness ==
    /\ pc \in {"handle", "update"}
    /\ log # <<>> /\ log[Len(log)] = "SPACE"
    /\ ~paused /\ ~hiding /\ temp = <<>>
    /\ nposted = 0
    /\ \A i \in DOMAIN objs :
          objs[i].interactable => ~collide_rect_ratio(lucy.rect, objs[i].rect)

\* C12: at every frame boundary, a dialogue box that is not finished means the game is
\* paused and speed is 0, also with more than one box pending.
C12_PausedWhileDialogue ==
    (pc = "pump" /\ \E i \in DOMAIN dialogue : ~dialogue[i].finished) =>
        (paused /\ speed = 0)

\* C13: the player sprite's pause flag equals (paused or hiding), and a hiding player
\* is transparent: RESUME while hiding keeps the sprite paused, RESUME while not
\* hiding and un-hide clear the flag.
C13_SpritePause ==
    /\ lucy.pause = (paused \/ hiding)
    /\ hiding => lucy.image = <<"transparent">>

\* RESUME has just been handled while hiding
C13_Witness ==
    /\ log # <<>> /\ log[Len(log)] = "RESUME"
    /\ hiding /\ ~paused /\ lucy.pause

\* C16: a space key-down handled while paused changes no GameScreen state and posts
\* nothing; hiding ends only by a space key-down handled while hiding and not paused;
\* a key-down posts events only if it is a space handled while neither paused nor hiding.
C16_SpaceWhilePaused ==
    [][/\ (Handling("KEYDOWN") /\ Head(inbox).ev.key = "SPACE" /\ paused) =>
            (UNCHANGED gameVars /\ queue' = queue)
       /\ (hiding /\ ~hiding') =>
            (Handling("KEYDOWN") /\ Head(inbox).ev.key = "SPACE" /\ ~paused)
       /\ (Handling("KEYDOWN") /\ queue' # queue) =>
            (Head(inbox).ev.key = "SPACE" /\ ~paused /\ ~hiding)
      ]_vars

\* a space key-down has just been handled while paused and hiding
C16_Witness ==
    /\ log # <<>> /\ log[Len(log)] = "SPACE"
    /\ paused /\ hiding

----------------------------------------------------------------------------
(* Properties of the animation *)

\* C14: direction-switch reset.  A sprite update that turns Lucy from 'down' to 'left'
\* restarts the ticker and shows walk['left'][0], whatever index and ticker were.
C14_DirectionSwitch ==
    [][(pc = "render" /\ pc' = "pump" /\ lucy.direction = "down"
        /\ lucy'.direction = "left") =>
        (lucy'.ticker = 1 /\ lucy'.image = <<"walk", "left", 0>>)
      ]_vars

\* C15: un-hide clears transparency.  The space key-down that ends the hiding leaves
\* hiding false and speed 3, and a render of a player that neither hides nor is
\* paused never leaves the transparent image, whatever keys are held.
C15_UnhideVisible ==
    [][/\ (Handling("KEYDOWN") /\ Head(inbox).ev.key = "SPACE" /\ hiding /\ ~paused) =>
            (~hiding' /\ speed' = WalkSpeed)
       /\ (pc = "render" /\ pc' = "pump" /\ ~hiding /\ ~paused) =>
            lucy'.image # <<"transparent">>
      ]_vars

----------------------------------------------------------------------------
(* Properties of the world shift *)

\* C17: handling HIDE with move = False sets hiding and speed 0, pauses the sprite and
\* shifts every object by (player centre - target centre): the target's centre then
\* is the player's centre and the saved offset is the shift applied.
C17_HideCentres ==
    [][(Handling("HIDE") /\ ~Head(inbox).ev.move) =>
        LET name == Head(inbox).ev.object
            c == center(eventObject(objs, name).rect)
            off == <<center(lucy.rect)[1] - c[1], center(lucy.rect)[2] - c[2]>>
        IN  /\ hiding' /\ speed' = 0 /\ lucy'.pause
            /\ objs' = [i \in DOMAIN objs |->
                          [objs[i] EXCEPT !.rect.x = @ + off[1], !.rect.y = @ + off[2],
                                          !.boundingbox.x = IF Truthy(objs[i].boundingbox)
                                                            THEN @ + off[1] ELSE @,
                                          !.boundingbox.y = IF Truthy(objs[i].boundingbox)
                                                            THEN @ + off[2] ELSE @]]
            /\ temp' = off
            /\ center(eventObject(objs', name).rect) = center(lucy'.rect)
      ]_vars

\* HIDE has just been handled and has moved the world
C17_Witness ==
    /\ log # <<>> /\ log[Len(log)] = "HIDE"
    /\ hiding /\ temp # <<>> /\ temp # <<0, 0>>
    /\ center(eventObject(objs, "bed").rect) = center(lucy.rect)

\* C18: lockstep.  The static objects keep their initial positions relative to each
\* other, and every object keeps the initial offset between its rect and its
\* bounding box.
C18_Lockstep ==
    /\ \A i, j \in DOMAIN InitObjects :
          /\ objs[i].rect.x - objs[j].rect.x = InitObjects[i].rect.x - InitObjects[j].rect.x
          /\ objs[i].rect.y - objs[j].rect.y = InitObjects[i].rect.y - InitObjects[j].rect.y
    /\ \A i \in DOMAIN objs :
          LET o0 == IF i \in DOMAIN InitObjects THEN InitObjects[i] ELSE Juice
          IN  /\ Truthy(objs[i].boundingbox) = Truthy(o0.boundingbox)
              /\ objs[i].boundingbox.w = o0.boundingbox.w
              /\ objs[i].boundingbox.h = o0.boundingbox.h
              /\ Truthy(o0.boundingbox) =>
                    /\ objs[i].boundingbox.x - objs[i].rect.x = o0.boundingbox.x - o0.rect.x
                    /\ objs[i].boundingbox.y - objs[i].rect.y = o0.boundingbox.y - o0.rect.y

\* the world has been walked, hidden under the bed and un-hidden, and Juice is there
C18_Witness ==
    /\ ~hiding /\ temp # <<>>
    /\ objs[1].rect # InitObjects[1].rect
    /\ Len(objs) > Len(InitObjects)
    /\ upd.done /\ upd.hitx

\* C19: the player's screen rectangle is fixed: Lucy's rect and bounding box are where
\* Lucy.__init__ put them, whatever has been handled, updated and rendered.
C19_PlayerFixed == lucy.rect = LucyRect /\ lucy.boundingbox = LucyRect

\* the world has just moved under a player that has hidden before
C19_Witness ==
    /\ temp # <<>> /\ ~hiding
    /\ upd.done /\ upd.dx # 0 /\ ~upd.hitx
    /\ lucy.rect = LucyRect

\* C20: no two objects of the registry have the same name.
C20_UniqueNames ==
    \A i, j \in DOMAIN objs : i # j => objs[i].name # objs[j].name

----------------------------------------------------------------------------
(* Properties of the triggerable objects, the screens and the main loop *)

\* C21: trigger on overlap.  Whenever the player's rect overlaps the rect of a
\* triggerable object of the registry, that object's trigger() has been called.
\* (GameScreen never calls triggerables() or trigger(): Juice walks into the player
\* and nothing is triggered.)
C21_TriggerOnOverlap ==
    screen = "game" =>
        \A i \in DOMAIN triggerables(objs) :
            colliderect(lucy.rect, triggerables(objs)[i].rect)
                => triggerables(objs)[i].name \in triggered

\* C22: screen transitions.  The active screen changes only in `screen =
\* screen.update()`: MainMenu.update yields a new GameScreen (in the state
\* GameScreen.__init__ builds) when Play was clicked, otherwise a new OptionsMenu when
\* Options was clicked, otherwise the menu itself; with the game screen or the options
\* menu active no step changes the active screen.
C22_ScreenTransitions ==
    [][/\ (pc = "update" /\ screen = "menu")
            => screen' = (IF menu.rungame THEN "game"
                          ELSE IF menu.options THEN "options" ELSE "menu")
       /\ ~(pc = "update" /\ screen = "menu") => screen' = screen
       /\ (screen # "game" /\ screen' = "game")
            => gameVars' = <<InitObjects, Lucy, WalkSpeed, FALSE, FALSE, <<>>, InitObjectives,
                             StaminaMax, FALSE, <<>>>>]_vars

\* the game screen, entered from the menu, has run its own update and is still active
C22_Witness == screen = "game" /\ menu.rungame /\ ~menu.options /\ upd.done /\ upd.dy # 0

\* C23: QUIT exits at once.  Once a QUIT event has been handled (running is False)
\* the only step the loop takes is its exit: no further event is dispatched, no
\* update and no render runs.
\* (_handle only clears the flag, which `while self.running` reads at the top of the
\* next frame: the rest of the events, update and render of this frame still run.)
C23_QuitIsImmediate == [][~running => pc' = "exited"]_vars

----------------------------------------------------------------------------
(* Properties of the dialogue list *)

\* C24: dialogue boxes leave the list when finished.  A render removes from the
\* dialogue list every box whose finished flag was set before it, however many boxes
\* are pending: the list after the render is shorter by the number of finished boxes.
\* (Screen.render removes a finished box while it iterates over the list, so the box
\* behind it is passed over: neither rendered nor, if finished, removed.)
C24_FinishedRemoved ==
    [][(pc = "render" /\ screen = "game")
            => Len(dialogue') = Len(dialogue)
                                - Cardinality({i \in DOMAIN dialogue : dialogue[i].finished})]_vars

----------------------------------------------------------------------------
(* Properties of GameScreen.update: sprint, direction keys, collision *)

\* C25: sprint boost.  In every update the boost is applied iff the sprint key is
\* held and the stamina bar is not blocked at the start of the update: with the boost
\* both displacement components have magnitude 0 or 2 * speed and the player's
\* animation rate becomes 6; without it they have magnitude 0 or speed and the rate
\* becomes 2.
C25_SprintBoost ==
    [][(pc = "update" /\ screen = "game") =>
        IF upd'.shift /\ ~blocked
        THEN /\ upd'.dx \in {(-2) * speed, 0, 2 * speed}
             /\ upd'.dy \in {(-2) * speed, 0, 2 * speed}
             /\ lucy'.rate = SprintRate
        ELSE /\ upd'.dx \in {(-1) * speed, 0, speed}
             /\ upd'.dy \in {(-1) * speed, 0, speed}
             /\ lucy'.rate = WalkRate]_vars

\* an update has doubled both components of a diagonal walk while the sprint key was
\* held, and has used stamina for it
C25_Witness ==
    /\ upd.done /\ upd.shift /\ upd.boost
    /\ upd.dx = 2 * WalkSpeed /\ upd.dy = (-2) * WalkSpeed
    /\ lucy.rate = SprintRate /\ stamina < StaminaMax

----------------------------------------------------------------------------
(* Properties of ObjectsGroup *)

\* C27: get.  A call of get(name) yields the first object of the registry, in
\* registry order, whose name is the argument, and None (here <<>>) when no object has
\* that name; the call leaves the registry as it was.
C27_GetFirstOrNone ==
    [][got' # got =>
        LET name == got'[1]
            result == got'[2]
            named == {i \in DOMAIN objs : objs[i].name = name}
        IN  /\ named = {} => result = <<>>
            /\ named # {} => \E i \in named : /\ result = <<objs[i]>>
                                              /\ \A j \in named : i <= j
            /\ objs' = objs]_vars

\* get("floor") has returned the first of the two floor tiles, not the second
C27_Witness ==
    /\ got # <<>>
    /\ got[1] = "floor"
    /\ Cardinality({i \in DOMAIN objs : objs[i].name = "floor"}) > 1
    /\ got[2] = <<objs[1]>>
    /\ got[2] # <<objs[2]>>

\* C28: the derived views follow the membership.  In every state colliders() holds
\* exactly the registry objects with a bounding box, interactables() exactly those
\* with interactable set and triggerables() exactly those with triggerable set, each
\* in registry order; and every update that starts with the player free of collisions
\* ends with the player not overlapping the bounding box of a Juice that is in the
\* registry, from the first update after Juice was added.
C28_ViewsAreCurrent ==
    /\ [](/\ \A i \in DOMAIN objs :
                /\ Truthy(objs[i].boundingbox) <=> Contains(colliders(objs), objs[i])
                /\ objs[i].interactable <=> Contains(interactables(objs), objs[i])
                /\ objs[i].triggerable <=> Contains(triggerables(objs), objs[i])
          /\ \A o \in {colliders(objs)[k] : k \in DOMAIN colliders(objs)}
                    \cup {interactables(objs)[k] : k \in DOMAIN interactables(objs)}
                    \cup {triggerables(objs)[k] : k \in DOMAIN triggerables(objs)} :
                Contains(objs, o))
    /\ [][(pc = "update" /\ screen = "game" /\ pc' = "render" /\ upd'.free)
            => \A i \in DOMAIN objs' :
                    objs'[i].kind = "juice"
                        => ~colliderect(lucy'.rect, objs'[i].boundingbox)]_vars

\* an update has just been rolled back on the y axis because the shifted world put
\* Juice's bounding box, and no wall, onto the player
C28_Witness ==
    /\ upd.done /\ upd.free /\ upd.hity /\ upd.dy # 0
    /\ \E i \in DOMAIN objs :
        /\ objs[i].kind = "juice"
        /\ colliderect(lucy.rect, move_ip(objs[i].boundingbox, 0, upd.dy))
    /\ \A i \in DOMAIN objs :
        objs[i].kind # "juice" => ~colliderect(lucy.rect, move_ip(objs[i].boundingbox, 0, upd.dy))

----------------------------------------------------------------------------
(* Properties of the walk animation *)

\* C29: animation index safety.  The player's animation index is always in
\* 0..len(frames), every walk frame shown has an index in 0..len(frames)-1, and each
\* gated call of _playanimation shows the frame after the one the previous gated call
\* showed, cyclically: an index equal to len(frames) is reset to 0 before the frame is
\* read, whatever direction changes and idle periods lie in between.
C29_IndexSafety ==
    /\ [](/\ lucy.index \in 0..WalkFrames
          /\ lucy.image[1] = "walk" => lucy.image[3] \in 0..(WalkFrames - 1))
    /\ [][lucy'.index # lucy.index
            => /\ lucy'.image = <<"walk", lucy'.direction, lucy.index % WalkFrames>>
               /\ lucy'.index = (lucy.index % WalkFrames) + 1]_vars

\* the last frame of a walk has been shown, the index equals len(frames), and the
\* player has turned: the next call is gated and has to reset the index first
C29_Witness ==
    /\ lucy.index = WalkFrames
    /\ lucy.image = <<"walk", "left", WalkFrames - 1>>
    /\ pc = "render" /\ ~lucy.pause

----------------------------------------------------------------------------
(* Collision preservation *)

\* C30: collision preservation.  An update that starts with the player's rect
\* overlapping no collider's bounding box ends with the player's rect overlapping no
\* collider's bounding box, whatever keys are held, at walking and sprinting speed.
C30_CollisionPreserved ==
    [][(pc = "update" /\ screen = "game" /\ ~_collide(objs, lucy))
            => ~_collide(objs', lucy')]_vars

\* a sprinted diagonal update from a collision-free position has run into a wall on
\* both axes and has been rolled back on both
C30_Witness ==
    /\ upd.done /\ upd.free /\ upd.boost
    /\ upd.hitx /\ upd.hity /\ upd.dx # 0 /\ upd.dy # 0
    /\ ~_collide(objs, lucy)

----------------------------------------------------------------------------
(* Properties of the whole game: collisions, hiding, Juice, pause, stamina, objectives *)

\* C31: no overlap at frame boundaries.  At every frame boundary of the game screen
\* at which the player is not hiding, the player's rect overlaps no collider's
\* bounding box.
\* (Juice has a bounding box and walks on in render, where nothing tests for a
\* collision: it walks into a player standing in its way.)
C31_FreeAtFrameBoundary ==
    (pc = "pump" /\ screen = "game" /\ ~hiding) => ~_collide(objs, lucy)

\* C32: one Hide at a time.  A HIDE event is never handled while hiding is already
\* true.
\* (Two space key-downs in one frame make the bed post two HIDE events before the
\* first is handled; the second is handled while hiding and overwrites the offset.)
C32_OneHideAtATime == Handling("HIDE") => ~hiding

\* C37: stamina step rule.  In every update stamina changes by exactly -1 if the
\* sprint key is held and the bar is not blocked at the start of the update, whatever
\* direction keys are held and whether or not the game is paused or the player hides;
\* by exactly +1 if that is not so and stamina < 100; by 0 otherwise.  In every state
\* stamina = 0 implies blocked.
C37_StaminaStep ==
    /\ [](stamina = 0 => blocked)
    /\ [][(pc = "update" /\ screen = "game")
            => stamina' - stamina = (IF upd'.shift /\ ~blocked THEN -1
                                     ELSE IF stamina < StaminaMax THEN 1 ELSE 0)]_vars

\* the sprint key, held without a direction key while the player hides, has just
\* used up a unit of stamina
C37_Witness ==
    /\ hiding /\ speed = 0
    /\ upd.done /\ upd.shift /\ upd.boost /\ upd.dx = 0 /\ upd.dy = 0
    /\ stamina < StaminaMax - 1

\* C38: objectives in order, by their own object.  Every OBJECTIVE event is posted by
\* the handling of a space key-down, names the head of the objectives at that moment,
\* which is eat_food with the bowls in reach or hide_under_bed with the bed in reach;
\* a space key-down at the bed (the bowls out of reach) while eat_food is the head
\* posts a HIDE and no OBJECTIVE; whenever the objectives change, the head is removed
\* and it was eat_food or hide_under_bed; go_to_kitchen is never removed, and
\* hide_under_bed is never removed while eat_food is still in the list.
C38_ObjectivesInOrder ==
    /\ [](/\ Contains(objectives, "go_to_kitchen")
          /\ Contains(objectives, "eat_food") => Contains(objectives, "hide_under_bed"))
    /\ [][LET new == IF Len(queue') > Len(queue)
                     THEN SubSeq(queue', Len(queue) + 1, Len(queue')) ELSE <<>>
              posted == {new[i].ev : i \in {j \in DOMAIN new : new[j].ev.type = "OBJECTIVE"}}
              inReach(kind) == \E i \in DOMAIN objs :
                                  /\ objs[i].kind = kind
                                  /\ collide_rect_ratio(lucy.rect, objs[i].rect)
              space == /\ Handling("KEYDOWN") /\ Head(inbox).ev.key = "SPACE"
                       /\ ~paused /\ ~hiding
          IN  /\ \A ev \in posted :
                    /\ space
                    /\ ev.objective = objectives[1]
                    /\ \/ ev.objective = "eat_food" /\ inReach("bowls")
                       \/ ev.objective = "hide_under_bed" /\ inReach("bed")
              /\ (space /\ objectives[1] = "eat_food" /\ inReach("bed") /\ ~inReach("bowls"))
                    => /\ posted = {}
                       /\ \E i \in DOMAIN new : new[i].ev.type = "HIDE"
              /\ objectives' # objectives
                    => /\ objectives' = Tail(objectives)
                       /\ Head(objectives) \in {"eat_food", "hide_under_bed"}]_vars

\* both objectives have been completed, in their order, and the player still hides
\* under the bed that completed the second
C38_Witness ==
    /\ objectives = <<"go_to_kitchen", "nothing">>
    /\ hiding /\ ~paused /\ pc = "pump"

\* C35: hiding and pausing stop the player only.  In every render that starts with
\* the player hiding or the game paused, the player sprite is left exactly as it was
\* (image, index, ticker, direction), while every Juice in the registry takes one
\* step of its patrol (one pixel, distance by one) and of its animation (ticker by
\* one).
C35_OnlyPlayerPaused ==
    [][(pc = "render" /\ screen = "game" /\ (hiding \/ paused))
        => /\ lucy' = lucy
           /\ \A i \in DOMAIN objs :
                objs[i].kind = "juice"
                    => /\ objs'[i].ticker = objs[i].ticker + 1
                       /\ objs'[i].distance - objs[i].distance \in {-1, 1}
                       /\ objs'[i].rect =
                            move_ip(objs[i].rect, 0, objs'[i].distance - objs[i].distance)
                       /\ objs'[i].boundingbox =
                            move_ip(objs[i].boundingbox, 0, objs'[i].distance - objs[i].distance)]_vars

\* the player hides, the dialogue box is closed and the game no longer paused, and
\* Juice has walked three steps since it was added
C35_Witness ==
    /\ hiding /\ ~paused /\ lucy.pause /\ lucy.image = <<"transparent">>
    /\ pc = "pump"
    /\ \E i \in DOMAIN objs : objs[i].kind = "juice" /\ objs[i].distance = 3

\* C34: Juice's patrol.  In every state each Juice has 0 <= distance <= 800, and its
\* rect and bounding box lie (0, distance) from where it was added, measured against
\* the bed (which Juice's spawn finds centred on the player); each render moves Juice
\* one pixel: down while it has not reached 800, then up until distance is 0, then
\* down again.
C34_JuicePatrol ==
    /\ [](\A i \in DOMAIN objs :
            objs[i].kind = "juice"
                => /\ objs[i].distance \in 0..PatrolLength
                   /\ objs[i].boundingbox = objs[i].rect
                   /\ objs[i].rect.x - JuiceRect.x
                        = center(eventObject(objs, "bed").rect)[1] - center(LucyRect)[1]
                   /\ objs[i].rect.y - JuiceRect.y - objs[i].distance
                        = center(eventObject(objs, "bed").rect)[2] - center(LucyRect)[2])
    /\ [][(pc = "render" /\ screen = "game")
            => \A i \in DOMAIN objs :
                objs[i].kind = "juice"
                    => /\ objs'[i].distance = objs[i].distance + (IF objs[i].flip THEN -1 ELSE 1)
                       /\ objs'[i].flip = (\/ objs'[i].distance = PatrolLength
                                           \/ objs[i].flip /\ objs'[i].distance # 0)
                       /\ objs[i].distance = PatrolLength => objs[i].flip
                       /\ objs[i].distance = 0 => ~objs[i].flip]_vars

\* Juice has walked down the whole patrol, back up, and has set out again
C34_Witness ==
    \E i \in DOMAIN objs :
        /\ objs[i].kind = "juice"
        /\ objs[i].ticker = (2 * PatrolLength) + 1
        /\ objs[i].distance = 1 /\ ~objs[i].flip

\* C33: Juice's spawn position is fixed against the house.  In the step that adds
\* Juice to the registry, Juice's rect and bounding box lie at one and the same offset
\* from the bed's rect, wherever the player stood when the objective was completed:
\* the bed has just been centred on the player, and Juice is put at its fixed screen
\* position.
C33_SpawnFixedToHouse ==
    [][spawned' > spawned
        => LET juice == objs'[Len(objs')]
               bed == eventObject(objs', "bed")
           IN  /\ juice.kind = "juice"
               /\ juice.boundingbox = juice.rect
               /\ juice.rect.x - bed.rect.x
                    = JuiceRect.x - (center(LucyRect)[1] - (bed.rect.w \div 2))
               /\ juice.rect.y - bed.rect.y
                    = JuiceRect.y - (center(LucyRect)[2] - (bed.rect.h \div 2))]_vars

\* Juice has been added after the player hid from the starting position, with the
\* world where GameScreen.__init__ put it; the bed is in reach from the position to
\* the left of it as well
C33_Witness ==
    /\ spawned = 1 /\ hiding
    /\ preHide # <<>>
    /\ eventObject(preHide, "bed").rect = eventObject(InitObjects, "bed").rect
    /\ collide_rect_ratio(LucyRect, move_ip(eventObject(InitObjects, "bed").rect, WalkSpeed, 0))

\* C36: no stuck pause.  Every PAUSE is followed by paused becoming false again; in
\* particular the program never comes to its end with paused still true.
\* (A second space key-down in the frame of the first makes the bowls post the
\* PAUSE, RENDER and OBJECTIVE of eat_food twice; the second OBJECTIVE raises in
\* objectives.remove after both PAUSEs were handled, and no RESUME is ever handled.)
C36_NoStuckPause == pc = "crashed" => ~paused
====
